---- MODULE Spec2Model ----
(***************************************************************************)
(* PTO bot (src/app.py): link-state synchronisation between a chat         *)
(* confirmation message, a calendar event and the pto_links ledger.        *)
(*                                                                         *)
(* Every listener invocation is a process of its own (the framework runs  *)
(* listeners on a thread pool); a step of a process is one call that       *)
(* touches the shared world: the calendar service, the chat platform or    *)
(* the sqlite store.  Local computation between two such calls is folded   *)
(* into the step that follows it.                                          *)
(*                                                                         *)
(* Faults modelled: calendar insert, message post, ledger INSERT, calendar *)
(* delete and chat.delete may each raise; the probe calls of /pto-setup    *)
(* and the rename in init_db may fail.                                     *)
(*                                                                         *)
(* Spec:      submissions and deletions racing, a few forms.               *)
(* SpecForm:  one submission drawn from every form, and deletions.         *)
(* SpecAdmin: one submission, deletions, /pto-setup and /pto-where.        *)
(* SpecBoot:  init_db on an absent, valid or damaged file, then handlers.  *)
(***************************************************************************)
EXTENDS Naturals, Sequences, FiniteSets

VARIABLES
    channel_settings,   \* table channel_settings: channel -> calendar id
    pto_links,          \* table pto_links: slack_ts -> row
    cal_events,         \* calendar service: event id (index) -> event
    messages,           \* chat platform: ts (index) -> posted bot message
    sub,                \* handle_submit invocations
    del,                \* on_message_events / handle_pto_delete invocations
    setups,             \* number of /pto-setup invocations so far
    admin_log,          \* /pto-setup and /pto-where invocations, in order
    boot                \* the database file and init_db's position

vars == <<channel_settings, pto_links, cal_events, messages, sub, del, setups,
          admin_log, boot>>

\* ---------------------------------------------------------------- bounds
MaxSubs == 2        \* handle_submit invocations
MaxDels == 2        \* deletion-handler invocations
MaxSetups == 1      \* /pto-setup invocations
MaxFormSubs == 1    \* handle_submit invocations when every form is drawn
MaxAdminSubs == 1   \* handle_submit invocations next to the admin commands
MaxWheres == 1      \* /pto-where invocations
MaxBootSubs == 1    \* handle_submit invocations after a modelled startup

Subs == 1..MaxSubs
Dels == 1..MaxDels

\* ------------------------------------------------------------- constants
Channels == {"C1", "C2"}
Calendars == {"cal_default", "cal_team"}
PTO_CHANNEL == "C1"
CAL_ID == "cal_default"

\* Python None / a present value
None == <<>>
Some(x) == <<x>>
Val(o) == o[1]

EmptyTable == [k \in {} |-> k]

\* ---------------------------------------------------------------- store
get_calendar_for_channel(channel_id) ==
    IF channel_id \in DOMAIN channel_settings
    THEN channel_settings[channel_id]
    ELSE CAL_ID

\* INSERT OR IGNORE: an existing binding is kept
set_calendar_for_channel_keepFirst(channel_id, calendar_id) ==
    [c \in DOMAIN channel_settings \cup {channel_id} |->
        IF c \in DOMAIN channel_settings THEN channel_settings[c] ELSE calendar_id]

\* INSERT OR REPLACE INTO channel_settings(channel_id, calendar_id)
set_calendar_for_channel(channel_id, calendar_id) ==
    [c \in DOMAIN channel_settings \cup {channel_id} |->
        IF c = channel_id THEN calendar_id ELSE channel_settings[c]]

\* SELECT event_id, calendar_id FROM pto_links WHERE slack_ts=?
find(ts) ==
    IF ts \in DOMAIN pto_links
    THEN Some([event_id |-> pto_links[ts].event_id,
               calendar_id |-> pto_links[ts].calendar_id])
    ELSE None

\* INSERT OR REPLACE INTO pto_links VALUES (...)
put(ts, row) ==
    [t \in DOMAIN pto_links \cup {ts} |-> IF t = ts THEN row ELSE pto_links[t]]

\* DELETE FROM pto_links WHERE slack_ts=?
remove(ts) ==
    [t \in DOMAIN pto_links \ {ts} |-> pto_links[t]]

\* ------------------------------------------------------ calendar service
\* events().delete(calendarId, eventId): raises on a transport/API fault,
\* and when the event is not (any longer) in that calendar.
delete_outcome(calendar_id, event_id, fault) ==
    IF fault THEN "fault"
    ELSE IF /\ event_id \in DOMAIN cal_events
            /\ cal_events[event_id].calendar = calendar_id
            /\ cal_events[event_id].live
         THEN "ok"
         ELSE "gone"

delete_event(event_id) ==
    [cal_events EXCEPT ![event_id].live = FALSE]

\* ------------------------------------------------------------------ init
IdleSub == [pc |-> "idle", form |-> None, acks |-> <<>>, response |-> None,
            post_channel |-> PTO_CHANNEL,
            cal_id_target |-> CAL_ID, ev |-> None, msg |-> None,
            notified |-> FALSE, fx |-> <<>>]

IdleDel == [pc |-> "idle", kind |-> "none", ts |-> None, ids |-> FALSE,
            row |-> None, calls |-> <<>>, fx |-> <<>>]

\* channel_settings is persisted: the process starts with the bindings of
\* earlier runs, none or some
InitialSettings == {EmptyTable, [c \in {"C2"} |-> "cal_team"]}

\* the process after init_db returned a connection to a readable file
Started == [pc |-> "running", file |-> "valid", found |-> "valid", backup |-> FALSE]

\* the successful /pto-setup invocations of earlier runs that left a table
\* of at most one binding
EarlierBinds(settings) ==
    IF settings = EmptyTable THEN <<>>
    ELSE LET c == CHOOSE c \in DOMAIN settings : TRUE
         IN  <<[cmd |-> "setup", channel |-> c, text |-> Some(settings[c]),
                probe |-> "ok", reply |-> None]>>

Init ==
    /\ channel_settings \in InitialSettings
    /\ pto_links = EmptyTable
    /\ cal_events = <<>>
    /\ messages = <<>>
    /\ sub = [s \in Subs |-> IdleSub]
    /\ del = [d \in Dels |-> IdleDel]
    /\ setups = 0
    /\ admin_log = EarlierBinds(channel_settings)
    /\ boot = Started

\* the shape of the state: the two tables, the calendar service, the chat
\* platform and the handler invocations
TypeOK ==
    /\ DOMAIN channel_settings \subseteq Channels
    /\ \A c \in DOMAIN channel_settings : channel_settings[c] \in Calendars
    /\ DOMAIN pto_links \subseteq DOMAIN messages
    /\ \A t \in DOMAIN pto_links :
          /\ pto_links[t].slack_channel \in Channels
          /\ pto_links[t].event_id \in DOMAIN cal_events
          /\ pto_links[t].calendar_id \in Calendars
    /\ \A e \in DOMAIN cal_events :
          /\ cal_events[e].calendar \in Calendars
          /\ cal_events[e].live \in BOOLEAN
          /\ cal_events[e].by \in {"submit", "probe"}
          /\ cal_events[e].by = "probe" => cal_events[e].start = None
    /\ \A m \in DOMAIN messages :
          messages[m].channel \in Channels /\ messages[m].live \in BOOLEAN
    /\ \A s \in Subs :
          /\ sub[s].pc \in {"idle", "rejected", "rejected_late", "insert", "post",
                            "put", "linked", "failed", "error_post", "error_put"}
          /\ Len(sub[s].acks) <= 2
          /\ sub[s].response \in {None} \cup {Some(sub[s].acks[i]) : i \in DOMAIN sub[s].acks}
          /\ sub[s].post_channel \in Channels
          /\ sub[s].cal_id_target \in Calendars
          /\ sub[s].ev \in {None} \cup {Some(e) : e \in DOMAIN cal_events}
          /\ sub[s].msg \in {None} \cup {Some(m) : m \in DOMAIN messages}
          /\ sub[s].notified \in BOOLEAN
    /\ \A d \in Dels :
          /\ del[d].pc \in {"idle", "find", "gw_delete", "remove", "chat_delete", "done"}
          /\ del[d].kind \in {"none", "event", "action"}
          /\ del[d].ts \in {None} \cup {Some(m) : m \in DOMAIN messages}
          /\ del[d].ids \in BOOLEAN
          /\ Len(del[d].calls) <= 1
    /\ setups \in 0..MaxSetups
    /\ \A i \in DOMAIN admin_log :
          /\ admin_log[i].cmd \in {"setup", "where"}
          /\ admin_log[i].channel \in Channels
          /\ admin_log[i].probe \in {"none", "insert_failed", "delete_failed", "ok"}
    /\ boot.pc \in {"start", "running", "crashed"}
    /\ boot.file \in {"absent", "valid", "corrupt"}
    /\ boot.found \in {"absent", "valid", "corrupt"}
    /\ boot.backup \in BOOLEAN

\* invocations are numbered in order of arrival
NextSub(s) == sub[s].pc = "idle" /\ \A r \in Subs : r < s => sub[r].pc # "idle"
NextDel(d) == del[d].pc = "idle" /\ \A r \in Dels : r < d => del[r].pc # "idle"


\* ------------------------------------------------------ dates and times
\* a date picker value "YYYY-MM-DD" is the tuple <<year, month, day>>, and
\* "YYYY-MM-DDTHH:MM:00" is <<year, month, day, hour, minute>>: the order of
\* the zero-padded strings, and of the datetimes parsed from them, is the
\* lexicographic order of the tuples
str_lt(a, b) ==
    \E i \in 1..Len(a) : a[i] < b[i] /\ \A j \in 1..(i - 1) : a[j] = b[j]

is_leap(y) == (y % 4 = 0 /\ y % 100 # 0) \/ y % 400 = 0

days_in_month(y, m) ==
    IF m = 2 THEN (IF is_leap(y) THEN 29 ELSE 28)
    ELSE IF m \in {4, 6, 9, 11} THEN 30 ELSE 31

\* d + timedelta(days=1)
plus_one_day(d) ==
    IF d[3] < days_in_month(d[1], d[2]) THEN <<d[1], d[2], d[3] + 1>>
    ELSE IF d[2] < 12 THEN <<d[1], d[2] + 1, 1>>
    ELSE <<d[1] + 1, 1, 1>>

\* the text of a time field after strip(): None when empty, else the two
\* numbers around the colon and whether both are written with two digits
\* ("09:00" is, "9:00" is not).  A text that does not split into two
\* integers fails _valid_time like one whose numbers are out of range.
valid_time(t) == 0 <= t.hh /\ t.hh < 24 /\ 0 <= t.mm /\ t.mm < 60

\* datetime.fromisoformat(f"{date}T{t}:00"): None stands for ValueError
fromisoformat(date, t) ==
    IF t.padded /\ valid_time(t)
    THEN Some(<<date[1], date[2], date[3], t.hh, t.mm>>)
    ELSE None

\* errors[key] = value
set_item(errors, key, value) ==
    [k \in DOMAIN errors \cup {key} |-> IF k = key THEN value ELSE errors[k]]

\* the branch for a missing start time left out
form_errors_noStartBranch(form) ==
    LET e1 == IF form.start # None /\ ~valid_time(Val(form.start))
              THEN set_item(EmptyTable, "start_b", "Use HH:MM") ELSE EmptyTable
        e2 == IF form.end # None /\ ~valid_time(Val(form.end))
              THEN set_item(e1, "end_b", "Use HH:MM") ELSE e1
        e3 == IF str_lt(form.date_end, form.date)
              THEN set_item(e2, "date_end_b", "End Date must be on or after Start Date")
              ELSE e2
        e4 == IF form.start # None /\ form.end = None
              THEN set_item(e3, "end_b", "Provide an end time") ELSE e3
    IN  e4

\* the date check made for all-day submissions only
form_errors_datesWhenAllDay(form) ==
    LET e1 == IF form.start # None /\ ~valid_time(Val(form.start))
              THEN set_item(EmptyTable, "start_b", "Use HH:MM") ELSE EmptyTable
        e2 == IF form.end # None /\ ~valid_time(Val(form.end))
              THEN set_item(e1, "end_b", "Use HH:MM") ELSE e1
        e3 == IF form.start = None /\ form.end = None /\ str_lt(form.date_end, form.date)
              THEN set_item(e2, "date_end_b", "End Date must be on or after Start Date")
              ELSE e2
        e4 == IF form.start # None /\ form.end = None
              THEN set_item(e3, "end_b", "Provide an end time") ELSE e3
        e5 == IF form.end # None /\ form.start = None
              THEN set_item(e4, "start_b", "Provide a start time") ELSE e4
    IN  e5

\* the errors dict of handle_submit: field tag -> message
form_errors(form) ==
    LET e1 == IF form.start # None /\ ~valid_time(Val(form.start))
              THEN set_item(EmptyTable, "start_b", "Use HH:MM") ELSE EmptyTable
        e2 == IF form.end # None /\ ~valid_time(Val(form.end))
              THEN set_item(e1, "end_b", "Use HH:MM") ELSE e1
        e3 == IF str_lt(form.date_end, form.date)
              THEN set_item(e2, "date_end_b", "End Date must be on or after Start Date")
              ELSE e2
        e4 == IF form.start # None /\ form.end = None
              THEN set_item(e3, "end_b", "Provide an end time") ELSE e3
        e5 == IF form.end # None /\ form.start = None
              THEN set_item(e4, "start_b", "Provide a start time") ELSE e4
    IN  e5

\* the event body's start and end, or the error found while building it
Window(timed, start, end) ==
    [error |-> None, timed |-> timed, start |-> start, end |-> end]

WindowError(tag, message) ==
    [error |-> Some(set_item(EmptyTable, tag, message)),
     timed |-> FALSE, start |-> None, end |-> None]

\* the comparison of start and end with > in place of >=
event_window_equalAllowed(form) ==
    IF form.start # None /\ form.end # None
    THEN LET s == fromisoformat(form.date, Val(form.start))
             e == fromisoformat(form.date_end, Val(form.end))
         IN  IF s = None \/ e = None
             THEN WindowError("end_b", "Invalid date/time.")
             ELSE IF str_lt(Val(e), Val(s))
                  THEN WindowError("end_b", "End must be after start.")
                  ELSE Window(TRUE, Val(s), Val(e))
    ELSE Window(FALSE, form.date, plus_one_day(form.date_end))

\* the all-day end taken as the End Date itself
event_window_inclusiveEnd(form) ==
    IF form.start # None /\ form.end # None
    THEN LET s == fromisoformat(form.date, Val(form.start))
             e == fromisoformat(form.date_end, Val(form.end))
         IN  IF s = None \/ e = None
             THEN WindowError("end_b", "Invalid date/time.")
             ELSE IF ~str_lt(Val(s), Val(e))
                  THEN WindowError("end_b", "End must be after start.")
                  ELSE Window(TRUE, Val(s), Val(e))
    ELSE Window(FALSE, form.date, form.date_end)

\* lines 311-339: a timed window when both times are given, else the
\* all-day window [date, date_end + 1 day); date picker values always parse
event_window(form) ==
    IF form.start # None /\ form.end # None
    THEN LET s == fromisoformat(form.date, Val(form.start))
             e == fromisoformat(form.date_end, Val(form.end))
         IN  IF s = None \/ e = None
             THEN WindowError("end_b", "Invalid date/time.")
             ELSE IF ~str_lt(Val(s), Val(e))
                  THEN WindowError("end_b", "End must be after start.")
                  ELSE Window(TRUE, Val(s), Val(e))
    ELSE Window(FALSE, form.date, plus_one_day(form.date_end))

\* ------------------------------------------------------------ form inputs
Form(modal_channel, pm, date, date_end, start, end) ==
    [modal_channel |-> modal_channel, pm |-> pm, date |-> date,
     date_end |-> date_end, start |-> start, end |-> end]

Time(hh, mm, padded) == Some([hh |-> hh, mm |-> mm, padded |-> padded])

OptChannels == {None} \cup {Some(c) : c \in Channels}

\* dates around the end of a month, of February in a leap and in a common
\* year, and of a year
Dates == {<<2023, 2, 28>>, <<2023, 12, 31>>, <<2024, 2, 28>>, <<2024, 2, 29>>,
          <<2024, 4, 30>>}

\* "", "09:00", "17:00", "9:00" and "24:00"
Times == {None, Time(9, 0, TRUE), Time(17, 0, TRUE), Time(9, 0, FALSE),
          Time(24, 0, TRUE)}

\* every window, submitted with /pto from the default channel
AllForms ==
    {Form(None, Some(PTO_CHANNEL), d0, d1, t0, t1) :
        d0 \in Dates, d1 \in Dates, t0 \in Times, t1 \in Times}

\* one all-day window and one rejected form, from the shortcut's modal
\* (a selected channel) and from the /pto modal (the invoking channel)
CoreForms ==
    {Form(None, Some("C1"), <<2024, 2, 28>>, <<2024, 2, 29>>, None, None),
     Form(Some("C2"), None, <<2024, 2, 28>>, <<2024, 2, 29>>, None, None),
     Form(None, Some("C1"), <<2024, 2, 29>>, <<2024, 2, 28>>, None, None)}

\* one all-day window, with every combination of selected channel and
\* invoking channel
ChannelForms ==
    {Form(mc, pm, <<2024, 2, 28>>, <<2024, 2, 29>>, None, None) :
        mc \in OptChannels, pm \in OptChannels}

\* ------------------------------------------------- handle_submit (view)
\* ack(): the modal closes; ack(response_action="errors", errors=...): the
\* modal stays open and shows the messages at the tagged fields
PlainAck == [response_action |-> "none", errors |-> EmptyTable]
ErrorsAck(errors) == [response_action |-> "errors", errors |-> errors]

\* the channel selected in the modal left out
post_channel_of_ignoresSelection(modal_channel, pm) ==
    IF pm # None THEN Val(pm) ELSE PTO_CHANNEL

\* post_channel = modal_channel or pm or PTO_CHANNEL
post_channel_of(modal_channel, pm) ==
    IF modal_channel # None THEN Val(modal_channel)
    ELSE IF pm # None THEN Val(pm)
    ELSE PTO_CHANNEL

\* read and validate the form, acknowledge, build the event body, resolve
\* the target channel and its calendar (lines 267-352).  The framework
\* answers the platform with the acknowledgement it finds set when its
\* polling thread next looks: after two ack calls in a row that is either
\* of the two (first_wins).
submit_resolve(s, form, first_wins) ==
    /\ NextSub(s)
    /\ LET ch == post_channel_of(form.modal_channel, form.pm)
           errors == form_errors(form)
           w == event_window(form)
       IN  IF errors # EmptyTable
           THEN sub' = [sub EXCEPT ![s].pc = "rejected",
                                   ![s].form = Some(form),
                                   ![s].post_channel = ch,
                                   ![s].acks = <<ErrorsAck(errors)>>,
                                   ![s].response = Some(ErrorsAck(errors))]
           ELSE IF w.error # None
           THEN sub' = [sub EXCEPT ![s].pc = "rejected_late",
                                   ![s].form = Some(form),
                                   ![s].post_channel = ch,
                                   ![s].acks = <<PlainAck, ErrorsAck(Val(w.error))>>,
                                   ![s].response =
                                       IF first_wins THEN Some(PlainAck)
                                       ELSE Some(ErrorsAck(Val(w.error)))]
           ELSE sub' = [sub EXCEPT ![s].pc = "insert",
                                   ![s].form = Some(form),
                                   ![s].post_channel = ch,
                                   ![s].acks = <<PlainAck>>,
                                   ![s].response = Some(PlainAck),
                                   ![s].cal_id_target = get_calendar_for_channel(ch)]
    /\ UNCHANGED <<channel_settings, pto_links, cal_events, messages, del, setups, admin_log, boot>>

\* the except clause without its return: the handler goes on after a failed insert
submit_insert_noReturn(s, ok) ==
    /\ sub[s].pc = "insert"
    /\ IF ok
       THEN /\ cal_events' = Append(cal_events,
                    [calendar |-> sub[s].cal_id_target, live |-> TRUE, by |-> "submit",
                     start |-> event_window(Val(sub[s].form)).start,
                     end |-> event_window(Val(sub[s].form)).end])
            /\ sub' = [sub EXCEPT ![s].pc = "post",
                                  ![s].ev = Some(Len(cal_events) + 1),
                                  ![s].fx = Append(@, "insert")]
       ELSE /\ cal_events' = cal_events
            /\ sub' = [sub EXCEPT ![s].pc = "post",
                                  ![s].notified = TRUE,
                                  ![s].fx = Append(@, "notify")]
    /\ UNCHANGED <<channel_settings, pto_links, messages, del, setups, admin_log, boot>>

\* ev = cal.events().insert(calendarId=cal_id_target, ...); on an exception
\* the requester gets a direct message and the handler returns
submit_insert(s, ok) ==
    /\ sub[s].pc = "insert"
    /\ IF ok
       THEN /\ cal_events' = Append(cal_events,
                    [calendar |-> sub[s].cal_id_target, live |-> TRUE, by |-> "submit",
                     start |-> event_window(Val(sub[s].form)).start,
                     end |-> event_window(Val(sub[s].form)).end])
            /\ sub' = [sub EXCEPT ![s].pc = "post",
                                  ![s].ev = Some(Len(cal_events) + 1),
                                  ![s].fx = Append(@, "insert")]
       ELSE /\ cal_events' = cal_events
            /\ sub' = [sub EXCEPT ![s].pc = "failed",
                                  ![s].notified = TRUE,
                                  ![s].fx = Append(@, "notify")]
    /\ UNCHANGED <<channel_settings, pto_links, messages, del, setups, admin_log, boot>>

\* msg = client.chat_postMessage(channel=post_channel, ...); an exception
\* here is not caught: the handler ends with it
submit_post(s, ok) ==
    /\ sub[s].pc = "post"
    /\ IF ok
       THEN /\ messages' = Append(messages,
                    [channel |-> sub[s].post_channel, live |-> TRUE])
            /\ sub' = [sub EXCEPT ![s].pc = "put",
                                  ![s].msg = Some(Len(messages) + 1),
                                  ![s].fx = Append(@, "post")]
       ELSE /\ messages' = messages
            /\ sub' = [sub EXCEPT ![s].pc = "error_post"]
    /\ UNCHANGED <<channel_settings, pto_links, cal_events, del, setups, admin_log, boot>>

\* the row handle_submit stores
link_row(s) ==
    [slack_channel |-> sub[s].post_channel,
     event_id      |-> Val(sub[s].ev),
     calendar_id   |-> sub[s].cal_id_target,
     start_iso     |-> event_window(Val(sub[s].form)).start,
     end_iso       |-> event_window(Val(sub[s].form)).end]

\* the row keyed by the event id instead of the message ts
submit_put_keyedByEvent(s, ok) ==
    /\ sub[s].pc = "put"
    /\ IF ok
       THEN /\ pto_links' = put(Val(sub[s].ev), link_row(s))
            /\ sub' = [sub EXCEPT ![s].pc = "linked", ![s].fx = Append(@, "put")]
       ELSE /\ pto_links' = pto_links
            /\ sub' = [sub EXCEPT ![s].pc = "error_put"]
    /\ UNCHANGED <<channel_settings, cal_events, messages, del, setups, admin_log, boot>>

\* db.execute("INSERT OR REPLACE INTO pto_links ..."); db.commit(); an
\* exception here is not caught: the handler ends with it
submit_put(s, ok) ==
    /\ sub[s].pc = "put"
    /\ IF ok
       THEN /\ pto_links' = put(Val(sub[s].msg), link_row(s))
            /\ sub' = [sub EXCEPT ![s].pc = "linked", ![s].fx = Append(@, "put")]
       ELSE /\ pto_links' = pto_links
            /\ sub' = [sub EXCEPT ![s].pc = "error_put"]
    /\ UNCHANGED <<channel_settings, cal_events, messages, del, setups, admin_log, boot>>

\* the invocations S of handle_submit, with forms drawn from F
handle_submit_of(S, F) ==
    \E s \in S :
        \/ \E form \in F, first_wins \in BOOLEAN : submit_resolve(s, form, first_wins)
        \/ \E ok \in BOOLEAN : submit_insert(s, ok)
        \/ \E ok \in BOOLEAN : submit_post(s, ok)
        \/ \E ok \in BOOLEAN : submit_put(s, ok)

handle_submit == handle_submit_of(Subs, CoreForms)


\* ------------------------------------------------------ chat platform
\* a person deletes the posted confirmation message in the chat client; the
\* platform then delivers message_deleted signals for it
user_deletes_message ==
    \E ts \in DOMAIN messages :
        /\ messages[ts].live
        /\ messages' = [messages EXCEPT ![ts].live = FALSE]
        /\ UNCHANGED <<channel_settings, pto_links, cal_events, sub, del, setups, admin_log, boot>>

\* --------------------------------------------- deletion reconciliation
\* where a handler goes once the link is dealt with: handle_pto_delete goes
\* on to remove the chat message, on_message_events is finished
after_reconcile(d) == IF del[d].kind = "action" THEN "chat_delete" ELSE "done"

\* @app.event("message") with subtype message_deleted: a delivery (first or
\* repeated) of the signal for a deleted message
message_deleted_start(d, ts) ==
    /\ NextDel(d)
    /\ ts \in DOMAIN messages
    /\ ~messages[ts].live
    /\ del' = [del EXCEPT ![d].pc = "find", ![d].kind = "event",
                          ![d].ts = Some(ts), ![d].ids = TRUE]
    /\ UNCHANGED <<channel_settings, pto_links, cal_events, messages, sub, setups, admin_log, boot>>

\* @app.action("pto_delete"): the button of a visible message is pressed;
\* a payload without channel or ts is logged and dropped
pto_delete_start(d, ts, ids) ==
    /\ NextDel(d)
    /\ ts \in DOMAIN messages
    /\ messages[ts].live
    /\ del' = [del EXCEPT ![d].pc = IF ids THEN "find" ELSE "done",
                          ![d].kind = "action",
                          ![d].ts = Some(ts), ![d].ids = ids,
                          ![d].fx = IF ids THEN <<>> ELSE <<"log_missing">>]
    /\ UNCHANGED <<channel_settings, pto_links, cal_events, messages, sub, setups, admin_log, boot>>

\* without the "if row:" guard: unpacking a missing row raises
find_link_noGuard(d) ==
    /\ del[d].pc = "find"
    /\ LET row == find(Val(del[d].ts)) IN
       del' = [del EXCEPT ![d].row = row,
                          ![d].pc = IF row # None THEN "gw_delete" ELSE "error"]
    /\ UNCHANGED <<channel_settings, pto_links, cal_events, messages, sub, setups, admin_log, boot>>

\* the chat message removed only inside the "if row:" block
find_link_chatDeleteInsideIf(d) ==
    /\ del[d].pc = "find"
    /\ LET row == find(Val(del[d].ts)) IN
       del' = [del EXCEPT ![d].row = row,
                          ![d].pc = IF row # None THEN "gw_delete" ELSE "done"]
    /\ UNCHANGED <<channel_settings, pto_links, cal_events, messages, sub, setups, admin_log, boot>>

\* row = db.execute("SELECT ...").fetchone(); if row: ...
find_link(d) ==
    /\ del[d].pc = "find"
    /\ LET row == find(Val(del[d].ts)) IN
       del' = [del EXCEPT ![d].row = row,
                          ![d].pc = IF row # None THEN "gw_delete"
                                    ELSE after_reconcile(d)]
    /\ UNCHANGED <<channel_settings, pto_links, cal_events, messages, sub, setups, admin_log, boot>>

gw_log(out) ==
    IF out = "ok" THEN "gw_ok" ELSE IF out = "fault" THEN "gw_fault" ELSE "gw_gone"

\* without the try/except: a failed gateway delete ends the handler
calendar_delete_uncaught(d, fault) ==
    /\ del[d].pc = "gw_delete"
    /\ LET row == Val(del[d].row)
           out == delete_outcome(row.calendar_id, row.event_id, fault) IN
       /\ cal_events' = IF out = "ok" THEN delete_event(row.event_id) ELSE cal_events
       /\ del' = [del EXCEPT ![d].pc = IF out = "ok" THEN "remove" ELSE "done",
                             ![d].calls = Append(@, <<row.calendar_id, row.event_id>>),
                             ![d].fx = Append(@, gw_log(out))]
    /\ UNCHANGED <<channel_settings, pto_links, messages, sub, setups, admin_log, boot>>

\* the delete sent to the calendar the channel is bound to now
calendar_delete_currentMapping(d, fault) ==
    /\ del[d].pc = "gw_delete"
    /\ LET row == Val(del[d].row)
           cal_id == get_calendar_for_channel(messages[Val(del[d].ts)].channel)
           out == delete_outcome(cal_id, row.event_id, fault) IN
       /\ cal_events' = IF out = "ok" THEN delete_event(row.event_id) ELSE cal_events
       /\ del' = [del EXCEPT ![d].pc = "remove",
                             ![d].calls = Append(@, <<cal_id, row.event_id>>),
                             ![d].fx = Append(@, gw_log(out))]
    /\ UNCHANGED <<channel_settings, pto_links, messages, sub, setups, admin_log, boot>>

\* try: cal.events().delete(calendarId=cal_id, eventId=event_id).execute()
\* except Exception as e: logger.error(e)
calendar_delete(d, fault) ==
    /\ del[d].pc = "gw_delete"
    /\ LET row == Val(del[d].row)
           out == delete_outcome(row.calendar_id, row.event_id, fault) IN
       /\ cal_events' = IF out = "ok" THEN delete_event(row.event_id) ELSE cal_events
       /\ del' = [del EXCEPT ![d].pc = "remove",
                             ![d].calls = Append(@, <<row.calendar_id, row.event_id>>),
                             ![d].fx = Append(@, gw_log(out))]
    /\ UNCHANGED <<channel_settings, pto_links, messages, sub, setups, admin_log, boot>>

\* DELETE keyed by the event id instead of the message ts
remove_link_byEventId(d) ==
    /\ del[d].pc = "remove"
    /\ pto_links' = remove(Val(del[d].row).event_id)
    /\ del' = [del EXCEPT ![d].pc = after_reconcile(d),
                          ![d].fx = Append(@, "remove")]
    /\ UNCHANGED <<channel_settings, cal_events, messages, sub, setups, admin_log, boot>>

\* DELETE of every row of the message's channel
remove_link_wholeChannel(d) ==
    /\ del[d].pc = "remove"
    /\ LET ts == Val(del[d].ts)
           gone == {t \in DOMAIN pto_links :
                        messages[t].channel = messages[ts].channel} IN
       pto_links' = [t \in DOMAIN pto_links \ gone |-> pto_links[t]]
    /\ del' = [del EXCEPT ![d].pc = after_reconcile(d),
                          ![d].fx = Append(@, "remove")]
    /\ UNCHANGED <<channel_settings, cal_events, messages, sub, setups, admin_log, boot>>

\* a removal that raises when the row is already gone
remove_link_strict(d) ==
    /\ del[d].pc = "remove"
    /\ pto_links' = remove(Val(del[d].ts))
    /\ del' = [del EXCEPT ![d].pc = IF Val(del[d].ts) \in DOMAIN pto_links
                                    THEN after_reconcile(d) ELSE "error",
                          ![d].fx = Append(@, "remove")]
    /\ UNCHANGED <<channel_settings, cal_events, messages, sub, setups, admin_log, boot>>

\* db.execute("DELETE FROM pto_links WHERE slack_ts=?", (ts,)); db.commit()
remove_link(d) ==
    /\ del[d].pc = "remove"
    /\ pto_links' = remove(Val(del[d].ts))
    /\ del' = [del EXCEPT ![d].pc = after_reconcile(d),
                          ![d].fx = Append(@, "remove")]
    /\ UNCHANGED <<channel_settings, cal_events, messages, sub, setups, admin_log, boot>>

\* try: client.chat_delete(channel=channel_id, ts=ts)
\* except Exception as e: logger.error(e)
\* (the platform refuses to delete a message that is already gone)
chat_delete(d, fault) ==
    /\ del[d].pc = "chat_delete"
    /\ LET ts == Val(del[d].ts)
           ok == ~fault /\ messages[ts].live IN
       /\ messages' = IF ok THEN [messages EXCEPT ![ts].live = FALSE] ELSE messages
       /\ del' = [del EXCEPT ![d].pc = "done",
                             ![d].fx = Append(@, IF ok THEN "chat_delete_ok"
                                                 ELSE "chat_delete_failed")]
    /\ UNCHANGED <<channel_settings, pto_links, cal_events, sub, setups, admin_log, boot>>

on_message_events ==
    \E d \in Dels :
        /\ del[d].kind \in {"none", "event"}
        /\ \/ \E ts \in DOMAIN messages : message_deleted_start(d, ts)
           \/ find_link(d)
           \/ \E fault \in BOOLEAN : calendar_delete(d, fault)
           \/ remove_link(d)

handle_pto_delete ==
    \E d \in Dels :
        /\ del[d].kind \in {"none", "action"}
        /\ \/ \E ts \in DOMAIN messages, ids \in BOOLEAN : pto_delete_start(d, ts, ids)
           \/ find_link(d)
           \/ \E fault \in BOOLEAN : calendar_delete(d, fault)
           \/ remove_link(d)
           \/ \E fault \in BOOLEAN : chat_delete(d, fault)

\* ------------------------------------------------------------ /pto-setup
\* the probe: insert a throwaway event, then delete it; a probe whose delete
\* fails stays in the calendar
probe_leftover(cal_id, insert_ok, delete_ok) ==
    IF insert_ok /\ ~delete_ok
    THEN Append(cal_events, [calendar |-> cal_id, live |-> TRUE, by |-> "probe",
                             start |-> None, end |-> None])
    ELSE cal_events

\* what the log keeps of a /pto-setup invocation: the channel, the argument
\* and how far the probe got ("none": no argument, no probe)
SetupEntry(channel_id, text, probe) ==
    [cmd |-> "setup", channel |-> channel_id, text |-> text, probe |-> probe,
     reply |-> None]

\* what the log keeps of a /pto-where invocation: the channel and the
\* calendar id of the reply
WhereEntry(channel_id, current) ==
    [cmd |-> "where", channel |-> channel_id, text |-> None, probe |-> "none",
     reply |-> Some(current)]

probe_outcome(text, insert_ok, delete_ok) ==
    IF text = None THEN "none"
    ELSE IF ~insert_ok THEN "insert_failed"
    ELSE IF ~delete_ok THEN "delete_failed"
    ELSE "ok"

\* the try block around the probe's insert only
pto_setup_deleteOutsideTry(channel_id, text, insert_ok, delete_ok) ==
    /\ setups < MaxSetups
    /\ setups' = setups + 1
    /\ admin_log' = Append(admin_log,
            SetupEntry(channel_id, text, probe_outcome(text, insert_ok, delete_ok)))
    /\ IF text = None
       THEN UNCHANGED <<channel_settings, cal_events>>
       ELSE /\ cal_events' = probe_leftover(Val(text), insert_ok, delete_ok)
            /\ channel_settings' =
                 IF insert_ok
                 THEN set_calendar_for_channel(channel_id, Val(text))
                 ELSE channel_settings
    /\ UNCHANGED <<pto_links, messages, sub, del, boot>>

\* text is the command's argument (None when empty)
pto_setup(channel_id, text, insert_ok, delete_ok) ==
    /\ setups < MaxSetups
    /\ setups' = setups + 1
    /\ admin_log' = Append(admin_log,
            SetupEntry(channel_id, text, probe_outcome(text, insert_ok, delete_ok)))
    /\ IF text = None
       THEN UNCHANGED <<channel_settings, cal_events>>
       ELSE /\ cal_events' = probe_leftover(Val(text), insert_ok, delete_ok)
            /\ channel_settings' =
                 IF insert_ok /\ delete_ok
                 THEN set_calendar_for_channel(channel_id, Val(text))
                 ELSE channel_settings
    /\ UNCHANGED <<pto_links, messages, sub, del, boot>>

pto_setup_command ==
    \E channel_id \in Channels,
       text \in {None} \cup {Some(c) : c \in Calendars},
       insert_ok \in BOOLEAN, delete_ok \in BOOLEAN :
        pto_setup(channel_id, text, insert_ok, delete_ok)

\* ------------------------------------------------------------ /pto-where
Wheres == {i \in DOMAIN admin_log : admin_log[i].cmd = "where"}

\* current = get_calendar_for_channel(channel_id); respond(...)
pto_where(channel_id) ==
    /\ Cardinality(Wheres) < MaxWheres
    /\ admin_log' = Append(admin_log,
            WhereEntry(channel_id, get_calendar_for_channel(channel_id)))
    /\ UNCHANGED <<channel_settings, pto_links, cal_events, messages, sub, del,
                   setups, boot>>

pto_where_command == \E channel_id \in Channels : pto_where(channel_id)

\* ---------------------------------------------------------------- init_db
\* the file at DB_PATH when the process starts: not there, a database with
\* the tables of earlier runs, or not a database (the tables then stand for
\* what the file held before it was damaged)
InitBoot ==
    /\ \E file \in {"absent", "valid", "corrupt"} :
          /\ boot = [pc |-> "start", file |-> file, found |-> file, backup |-> FALSE]
          /\ channel_settings \in
                (IF file = "absent" THEN {EmptyTable} ELSE InitialSettings)
          /\ \/ /\ pto_links = EmptyTable
                /\ cal_events = <<>>
                /\ messages = <<>>
             \/ /\ file # "absent"
                /\ pto_links = [t \in {1} |->
                        [slack_channel |-> PTO_CHANNEL, event_id |-> 1,
                         calendar_id |-> CAL_ID,
                         start_iso |-> <<2024, 2, 28>>, end_iso |-> <<2024, 2, 29>>]]
                /\ cal_events = <<[calendar |-> CAL_ID, live |-> TRUE, by |-> "submit",
                                   start |-> <<2024, 2, 28>>, end |-> <<2024, 2, 29>>]>>
                /\ messages = <<[channel |-> PTO_CHANNEL, live |-> TRUE]>>
    /\ sub = [s \in Subs |-> IdleSub]
    /\ del = [d \in Dels |-> IdleDel]
    /\ setups = 0
    /\ admin_log = EarlierBinds(channel_settings)

\* db = init_db(): connect and create the tables; on sqlite3.DatabaseError
\* rename the file to DB_PATH + ".corrupt" (an exception of the rename is
\* swallowed), connect and create the tables again, this time uncaught
init_db(rename_ok) ==
    /\ boot.pc = "start"
    /\ IF boot.file # "corrupt"
       THEN /\ boot' = [boot EXCEPT !.pc = "running", !.file = "valid"]
            /\ UNCHANGED <<channel_settings, pto_links>>
       ELSE IF rename_ok
       THEN /\ boot' = [boot EXCEPT !.pc = "running", !.file = "valid",
                                    !.backup = TRUE]
            /\ channel_settings' = EmptyTable
            /\ pto_links' = EmptyTable
       ELSE /\ boot' = [boot EXCEPT !.pc = "crashed"]
            /\ UNCHANGED <<channel_settings, pto_links>>
    /\ UNCHANGED <<cal_events, messages, sub, del, setups, admin_log>>

init_db_call == \E rename_ok \in BOOLEAN : init_db(rename_ok)

\* ------------------------------------------------------------------ spec
\* submissions and deletions, under the bindings the process started with
Next ==
    \/ handle_submit
    \/ on_message_events
    \/ handle_pto_delete
    \/ user_deletes_message

Spec == Init /\ [][Next]_vars

\* submissions of every form in AllForms, and deletions
NextForm ==
    \/ handle_submit_of(1..MaxFormSubs, AllForms)
    \/ on_message_events
    \/ handle_pto_delete
    \/ user_deletes_message

SpecForm == Init /\ [][NextForm]_vars

\* submissions from every combination of selected and invoking channel,
\* deletions, and the administrative commands
NextAdmin ==
    \/ handle_submit_of(1..MaxAdminSubs, ChannelForms)
    \/ on_message_events
    \/ handle_pto_delete
    \/ user_deletes_message
    \/ pto_setup_command
    \/ pto_where_command

SpecAdmin == Init /\ [][NextAdmin]_vars

\* startup, then submissions and deletions once init_db has returned
NextBoot ==
    \/ init_db_call
    \/ boot.pc = "running" /\ handle_submit_of(1..MaxBootSubs, CoreForms)
    \/ boot.pc = "running" /\ on_message_events
    \/ boot.pc = "running" /\ handle_pto_delete
    \/ boot.pc = "running" /\ user_deletes_message

SpecBoot == InitBoot /\ [][NextBoot]_vars


\* ============================================================== claims
SubTerminal(s) ==
    sub[s].pc \in {"idle", "rejected", "rejected_late", "failed", "error_post",
                   "error_put", "linked"}
DelTerminal(d) == del[d].pc \in {"idle", "done", "error"}
Quiescent == (\A s \in Subs : SubTerminal(s)) /\ (\A d \in Dels : DelTerminal(d))

\* the deletion handlers invoked for message ts (with a usable payload)
HandlersOf(ts) == {d \in Dels : del[d].ts = Some(ts) /\ del[d].ids}

\* the ledger holds a row for the event of submission s
Linked(s) == \E t \in DOMAIN pto_links : pto_links[t].event_id = Val(sub[s].ev)

EventLive(s) == cal_events[Val(sub[s].ev)].live

InSeq(x, q) == \E i \in DOMAIN q : q[i] = x

\* C1: for every confirmation message posted by a submission that went
\* through without any failure: once the message is deleted, the submission
\* handler has ended, the message-deleted signal has been delivered, every
\* deletion handler invoked for the message has run to completion and no
\* gateway delete call met a fault, the submission's calendar event no
\* longer exists.
C1_DeletedMessageDeletesEvent ==
    \A s \in Subs :
        (/\ sub[s].pc = "linked"
         /\ ~messages[Val(sub[s].msg)].live
         /\ \E d \in HandlersOf(Val(sub[s].msg)) : del[d].kind = "event"
         /\ \A d \in HandlersOf(Val(sub[s].msg)) :
                del[d].pc = "done" /\ ~InSeq("gw_fault", del[d].fx))
        => ~EventLive(s)

\* C2 as stated: once all handlers have ended, a link row exists if and only
\* if the event it references was created by a submission and still exists.
C2_LinkIffEvent ==
    Quiescent =>
        /\ \A t \in DOMAIN pto_links :
              /\ pto_links[t].event_id \in DOMAIN cal_events
              /\ cal_events[pto_links[t].event_id].by = "submit"
              /\ cal_events[pto_links[t].event_id].live
        /\ \A s \in Subs : (sub[s].ev # None /\ EventLive(s)) => Linked(s)

\* C2, amended: once all handlers have ended, every link row references an
\* event that a submission created in the recorded calendar and that still
\* exists; an event of a submission that still exists has a link row unless
\* the submission was aborted by a failing message post or ledger write, or
\* a gateway delete call for the event failed.
C2_LinkImpliesEvent ==
    Quiescent =>
        /\ \A t \in DOMAIN pto_links :
              /\ pto_links[t].event_id \in DOMAIN cal_events
              /\ cal_events[pto_links[t].event_id].by = "submit"
              /\ cal_events[pto_links[t].event_id].live
              /\ cal_events[pto_links[t].event_id].calendar = pto_links[t].calendar_id
        /\ \A s \in Subs :
              (sub[s].ev # None /\ EventLive(s) /\ ~Linked(s)) =>
                  \/ sub[s].pc \in {"error_post", "error_put"}
                  \/ \E d \in Dels :
                        /\ del[d].row # None
                        /\ Val(del[d].row).event_id = Val(sub[s].ev)
                        /\ InSeq("gw_fault", del[d].fx)

C2_Witness ==
    /\ Quiescent
    /\ \E s \in Subs : sub[s].pc = "linked" /\ Linked(s) /\ EventLive(s)
    /\ \E s \in Subs : sub[s].pc = "linked" /\ ~Linked(s) /\ EventLive(s)

\* C3: when the calendar insert of a submission fails, the handler ends
\* Failed: the requester has been notified privately, the submission posted
\* no message and wrote no ledger row, and every message and every ledger row
\* belongs to some other submission.
InsertFailed(s) ==
    sub[s].pc \notin {"idle", "rejected", "rejected_late", "insert"} /\ sub[s].ev = None

C3_InsertFailure ==
    \A s \in Subs :
        InsertFailed(s) =>
            /\ sub[s].pc = "failed"
            /\ sub[s].notified
            /\ sub[s].msg = None
            /\ \A m \in DOMAIN messages :
                  \E r \in Subs : r # s /\ sub[r].msg = Some(m)
            /\ \A t \in DOMAIN pto_links :
                  \E r \in Subs : r # s /\ sub[r].msg = Some(t)

C3_Witness ==
    \E s \in Subs :
        /\ sub[s].pc = "failed" /\ sub[s].notified
        /\ \E r \in Subs : sub[r].pc = "linked" /\ Linked(r)

\* C4: within a submission the effects come in the order insert, post,
\* ledger write; a ledger row is keyed by the identifier of the message its
\* submission posted, after that submission's insert and post succeeded, and
\* a submission that failed before the ledger write has no row.
Prefix(p, q) == Len(p) <= Len(q) /\ \A i \in DOMAIN p : p[i] = q[i]

C4_InsertPostPut ==
    /\ \A s \in Subs :
          /\ Prefix(sub[s].fx, <<"insert", "post", "put">>) \/ sub[s].fx = <<"notify">>
          /\ sub[s].pc = "post" => (sub[s].ev # None /\ sub[s].msg = None)
          /\ sub[s].pc = "put" => (sub[s].ev # None /\ sub[s].msg # None)
          /\ sub[s].pc \in {"idle", "rejected", "rejected_late", "insert", "post",
                            "put", "failed", "error_post", "error_put"}
                => /\ ~InSeq("put", sub[s].fx)
                   /\ sub[s].msg # None => Val(sub[s].msg) \notin DOMAIN pto_links
                   /\ sub[s].ev # None => ~Linked(s)
    /\ \A t \in DOMAIN pto_links :
          \E s \in Subs :
              /\ sub[s].pc = "linked"
              /\ sub[s].fx = <<"insert", "post", "put">>
              /\ sub[s].msg = Some(t)
              /\ t \in DOMAIN messages
              /\ pto_links[t] = link_row(s)
              /\ cal_events[pto_links[t].event_id].by = "submit"

C4_Witness ==
    /\ \E s \in Subs : sub[s].pc = "linked" /\ Val(sub[s].msg) \in DOMAIN pto_links
                       /\ Val(sub[s].msg) # Val(sub[s].ev)
    /\ \E s \in Subs : sub[s].pc = "error_post"

\* C5: when the ledger write of a submission fails, the requester is
\* notified privately and no ledger row of that submission exists.
C5_StorageErrorNotifies ==
    \A s \in Subs :
        sub[s].pc = "error_put" =>
            /\ sub[s].notified
            /\ Val(sub[s].msg) \notin DOMAIN pto_links


\* the handler of d has found a link and is past the removal of its row
Reconciled(d) == del[d].row # None /\ del[d].pc \in {"chat_delete", "done", "error"}

GwLogs == {"gw_ok", "gw_fault", "gw_gone"}

\* C6: on both deletion paths, a handler that found a link called
\* delete_event once and then removed the row, whatever the call's outcome:
\* once it is past the removal, and after it has completed, the ledger holds
\* no row for the message.
C6_RowRemovedRegardless ==
    \A d \in Dels :
        /\ del[d].row # None => del[d].pc \in {"gw_delete", "remove", "chat_delete", "done"}
        /\ Reconciled(d) =>
              /\ Val(del[d].ts) \notin DOMAIN pto_links
              /\ Len(del[d].fx) >= 2
              /\ del[d].fx[1] \in GwLogs
              /\ del[d].fx[2] = "remove"
              /\ del[d].pc = "done"
                    => del[d].fx \in {<<g, "remove">> : g \in GwLogs}
                                \cup {<<g, "remove", c>> : g \in GwLogs,
                                         c \in {"chat_delete_ok", "chat_delete_failed"}}

C6_Witness ==
    /\ \E d \in Dels : del[d].kind = "event" /\ del[d].pc = "done"
                       /\ del[d].row # None /\ del[d].fx[1] = "gw_fault"
    /\ \E d \in Dels : del[d].kind = "action" /\ del[d].pc = "done"
                       /\ del[d].row # None /\ del[d].fx[1] = "gw_ok"

\* C7: every step of a deletion handler (either path) that has found no
\* ledger row for its message leaves the ledger and the calendar unchanged,
\* issues no gateway call and does not end in an error.
C7_NoLinkNoOp ==
    [][\A d \in Dels :
          (/\ del'[d] # del[d]
           /\ del'[d].ids
           /\ del'[d].row = None
           /\ del'[d].pc # "find")
          => /\ pto_links' = pto_links
             /\ cal_events' = cal_events
             /\ del'[d].calls = <<>>
             /\ ~\E i \in DOMAIN del'[d].fx : del'[d].fx[i] \in GwLogs \cup {"remove"}
             /\ del'[d].pc \in {"chat_delete", "done"}]_vars

C7_Witness ==
    /\ \E d \in Dels : del[d].kind = "event" /\ del[d].pc = "done" /\ del[d].row = None
    /\ \E d \in Dels : del[d].kind = "action" /\ del[d].ids /\ del[d].pc = "done"
                       /\ del[d].row = None
    /\ pto_links # EmptyTable

\* C8: every step of a deletion handler that found a link leaves every other
\* ledger row and every other calendar event unchanged; the link it found is
\* the row its message's submission wrote; and once it is past the removal it
\* has issued exactly one gateway delete, for that row's calendar and event,
\* and the row is gone.
C8_ExactlyThatLink ==
    [][\A d \in Dels :
          (del'[d] # del[d] /\ del'[d].row # None)
          => LET ts == Val(del'[d].ts)
                 row == Val(del'[d].row) IN
             /\ \E s \in Subs : /\ sub[s].msg = Some(ts)
                                /\ row.event_id = Val(sub[s].ev)
                                /\ row.calendar_id = sub[s].cal_id_target
                                /\ cal_events[row.event_id].calendar = row.calendar_id
             /\ DOMAIN pto_links' \subseteq DOMAIN pto_links
             /\ \A t \in DOMAIN pto_links \ {ts} :
                   t \in DOMAIN pto_links' /\ pto_links'[t] = pto_links[t]
             /\ Len(cal_events') = Len(cal_events)
             /\ \A e \in DOMAIN cal_events :
                   e # row.event_id => cal_events'[e] = cal_events[e]
             /\ del'[d].pc \in {"chat_delete", "done"}
                   => /\ del'[d].calls = <<(<<row.calendar_id, row.event_id>>)>>
                      /\ ts \notin DOMAIN pto_links']_vars

C8_Witness ==
    \E d \in Dels :
        /\ del[d].pc = "done" /\ del[d].row # None /\ del[d].fx[1] = "gw_ok"
        /\ ~cal_events[Val(del[d].row).event_id].live
        /\ \E t \in DOMAIN pto_links :
              /\ messages[t].channel = messages[Val(del[d].ts)].channel
              /\ cal_events[pto_links[t].event_id].live


\* C9: when the deletion of a message has been delivered more than once and
\* every handler invoked for it has ended (handled one after the other or
\* interleaved), the state is the one a single handling leaves: no handler
\* ended in an error; if any of them found the link, the row is absent and
\* the event is deleted unless every gateway call for it met a fault; if none
\* found a link, none issued a gateway call; and every row no handler found,
\* with its event, is still there.
Found(ts) == {d \in HandlersOf(ts) : del[d].row # None}

C9_DuplicateDeliverySafe ==
    \A ts \in DOMAIN messages :
        (/\ Cardinality(HandlersOf(ts)) >= 2
         /\ \A d \in HandlersOf(ts) : DelTerminal(d))
        => /\ \A d \in HandlersOf(ts) : del[d].pc = "done"
           /\ Found(ts) # {} =>
                 /\ ts \notin DOMAIN pto_links
                 /\ \A d \in Found(ts) :
                       \/ ~cal_events[Val(del[d].row).event_id].live
                       \/ \A h \in Found(ts) : del[h].fx[1] = "gw_fault"
           /\ \A d \in HandlersOf(ts) \ Found(ts) : del[d].calls = <<>>
           /\ \A s \in Subs :
                 (/\ sub[s].pc = "linked"
                  /\ sub[s].msg # Some(ts)
                  /\ Found(Val(sub[s].msg)) = {})
                 => /\ Val(sub[s].msg) \in DOMAIN pto_links
                    /\ pto_links[Val(sub[s].msg)] = link_row(s)
                    /\ EventLive(s)

C9_Witness ==
    \E d1 \in Dels, d2 \in Dels :
        /\ d1 # d2
        /\ del[d1].ts = del[d2].ts
        /\ del[d1].kind = "event" /\ del[d2].kind = "event"
        /\ del[d1].pc = "done" /\ del[d2].pc = "done"
        /\ del[d1].fx = <<"gw_ok", "remove">>
        /\ del[d2].fx = <<"gw_gone", "remove">>
        /\ \E s \in Subs : sub[s].pc = "linked" /\ Linked(s) /\ EventLive(s)

\* C10: a delete action that carries channel and message ids never ends
\* before it has attempted to remove the chat message, link or no link,
\* gateway delete succeeded or failed; when it found a link, the attempt
\* comes after the ledger row is removed.
C10_ChatDeleteAlways ==
    \A d \in Dels :
        (del[d].kind = "action" /\ del[d].ids) =>
            /\ del[d].pc \in {"find", "gw_delete", "remove", "chat_delete", "done"}
            /\ del[d].pc = "done" =>
                  /\ del[d].fx # <<>>
                  /\ del[d].fx[Len(del[d].fx)] \in {"chat_delete_ok", "chat_delete_failed"}
            /\ (del[d].pc \in {"chat_delete", "done"} /\ del[d].row # None) =>
                  /\ Val(del[d].ts) \notin DOMAIN pto_links
                  /\ del[d].fx[2] = "remove"

C10_Witness ==
    /\ \E d \in Dels : del[d].kind = "action" /\ del[d].pc = "done"
                       /\ del[d].fx = <<"gw_fault", "remove", "chat_delete_ok">>
    /\ \E d \in Dels : del[d].kind = "action" /\ del[d].pc = "done"
                       /\ del[d].fx = <<"chat_delete_ok">>

\* --------------------------------------------------- submissions, by form
Submitted(s) == sub[s].form # None
FormOf(s) == Val(sub[s].form)

\* submission s created no event, posted no message, notified nobody and
\* wrote no row: whatever is there belongs to another one
NoEffects(s) ==
    /\ sub[s].ev = None /\ sub[s].msg = None
    /\ sub[s].fx = <<>> /\ ~sub[s].notified
    /\ \A e \in DOMAIN cal_events :
          cal_events[e].by = "submit" => \E r \in Subs : r # s /\ sub[r].ev = Some(e)
    /\ \A t \in DOMAIN messages : \E r \in Subs : r # s /\ sub[r].msg = Some(t)
    /\ \A t \in DOMAIN pto_links : \E r \in Subs : r # s /\ sub[r].msg = Some(t)

\* rejected by the validation: the only acknowledgement, and so the response
\* the form gets, is the errors dict
RejectedWith(s, tag) ==
    /\ sub[s].pc = "rejected"
    /\ Len(sub[s].acks) = 1
    /\ sub[s].acks[1].response_action = "errors"
    /\ sub[s].response = Some(sub[s].acks[1])
    /\ tag \in DOMAIN sub[s].acks[1].errors

OnlyStart(form) == form.start # None /\ form.end = None
OnlyEnd(form) == form.start = None /\ form.end # None

\* C11: a submission that gives exactly one of start time and end time is
\* rejected with a validation error at the missing field (the end-time field
\* when only the start is given, the start-time field when only the end is),
\* whatever the other fields hold; it creates no event, posts no message and
\* leaves the ledger as it was.
C11_OneTimeRejected ==
    \A s \in Subs :
        Submitted(s) =>
            /\ OnlyStart(FormOf(s)) =>
                  /\ RejectedWith(s, "end_b")
                  /\ sub[s].acks[1].errors["end_b"] = "Provide an end time"
                  /\ NoEffects(s)
            /\ OnlyEnd(FormOf(s)) =>
                  /\ RejectedWith(s, "start_b")
                  /\ sub[s].acks[1].errors["start_b"] = "Provide a start time"
                  /\ NoEffects(s)

\* only a well-formed end time is given, and the End Date is before the
\* Start Date
C11_Witness ==
    \E s \in Subs :
        /\ sub[s].pc = "rejected"
        /\ OnlyEnd(FormOf(s))
        /\ valid_time(Val(FormOf(s).end))
        /\ str_lt(FormOf(s).date_end, FormOf(s).date)
        /\ DOMAIN sub[s].response[1].errors = {"start_b", "date_end_b"}

\* C12: a submission whose End Date is before its Start Date is rejected
\* with a field error at the End Date field, with or without times; it
\* creates no event, posts no message and leaves the ledger as it was.
C12_EndDateBeforeStart ==
    \A s \in Subs :
        (Submitted(s) /\ str_lt(FormOf(s).date_end, FormOf(s).date)) =>
            /\ RejectedWith(s, "date_end_b")
            /\ NoEffects(s)

\* with both times given and well-formed, the End Date a day of an earlier
\* year with a later month and day number
C12_Witness ==
    \E s \in Subs :
        /\ sub[s].pc = "rejected"
        /\ FormOf(s).start = Time(9, 0, TRUE) /\ FormOf(s).end = Time(17, 0, TRUE)
        /\ FormOf(s).date = <<2024, 2, 28>> /\ FormOf(s).date_end = <<2023, 12, 31>>
        /\ DOMAIN sub[s].response[1].errors = {"date_end_b"}

\* date and time of day taken together
Combined(date, t) == <<date[1], date[2], date[3], Val(t).hh, Val(t).mm>>

\* both times given and well-formed, End Date not before Start Date
TimedForm(form) ==
    /\ form.start # None /\ valid_time(Val(form.start)) /\ Val(form.start).padded
    /\ form.end # None /\ valid_time(Val(form.end)) /\ Val(form.end).padded
    /\ ~str_lt(form.date_end, form.date)

EndNotAfterStart(form) ==
    ~str_lt(Combined(form.date, form.start), Combined(form.date_end, form.end))

\* C13: a timed submission (both times well-formed, End Date not before
\* Start Date) whose end is not after its start ends Rejected: the response
\* the form gets to the submission is the field error at the end-time field,
\* and it creates no event, posts no message and writes no ledger row.
C13_LateRejectionReturned ==
    \A s \in Subs :
        (Submitted(s) /\ TimedForm(FormOf(s)) /\ EndNotAfterStart(FormOf(s))) =>
            /\ sub[s].pc \in {"rejected", "rejected_late"}
            /\ sub[s].response # None
            /\ Val(sub[s].response).response_action = "errors"
            /\ "end_b" \in DOMAIN Val(sub[s].response).errors
            /\ NoEffects(s)

\* a stored start/end value with a time of day ("...T09:00:00")
IsDateTime(v) == Len(v) = 5

\* C14: after any sequence of submissions and deletions, every ledger row
\* written for a timed submission stores an end strictly greater than its
\* start.
C14_TimedRowEndAfterStart ==
    \A t \in DOMAIN pto_links :
        IsDateTime(pto_links[t].start_iso) =>
            /\ IsDateTime(pto_links[t].end_iso)
            /\ str_lt(pto_links[t].start_iso, pto_links[t].end_iso)

\* a row of a timed submission that ends on a later day at an earlier time
\* of day than it starts, while another handler has already run
C14_Witness ==
    \E t \in DOMAIN pto_links :
        /\ pto_links[t].start_iso = <<2023, 12, 31, 17, 0>>
        /\ pto_links[t].end_iso = <<2024, 2, 28, 9, 0>>
        /\ \E d \in Dels : del[d].pc = "done"

\* the number of a day, counted from 0001-01-01 as day 1
RECURSIVE days_before_month(_, _)
days_before_month(y, m) ==
    IF m = 1 THEN 0 ELSE days_before_month(y, m - 1) + days_in_month(y, m - 1)

toordinal(d) ==
    LET y == d[1] - 1
    IN  365 * y + (y \div 4) - (y \div 100) + (y \div 400)
            + days_before_month(d[1], d[2]) + d[3]

IsDate(v) ==
    /\ Len(v) = 3
    /\ v[2] \in 1..12
    /\ v[3] \in 1..days_in_month(v[1], v[2])

AllDayForm(form) == form.start = None /\ form.end = None

\* the start is D0 and the end is the day after D1
AllDayWindow(form, start, end) ==
    /\ start = form.date
    /\ IsDate(end)
    /\ toordinal(end) = toordinal(form.date_end) + 1

\* C15: for every accepted all-day submission with Start Date D0 and End
\* Date D1 >= D0, the calendar event and the ledger row carry start D0 and
\* end D1 + 1 day, also when D0 = D1 and when D1 is the last day of a month
\* or of a year.
C15_AllDayEndExclusive ==
    \A s \in Subs :
        (Submitted(s) /\ AllDayForm(FormOf(s))
            /\ ~str_lt(FormOf(s).date_end, FormOf(s).date)) =>
            /\ sub[s].pc \notin {"rejected", "rejected_late"}
            /\ sub[s].ev # None =>
                  AllDayWindow(FormOf(s), cal_events[Val(sub[s].ev)].start,
                               cal_events[Val(sub[s].ev)].end)
            /\ (sub[s].msg # None /\ Val(sub[s].msg) \in DOMAIN pto_links) =>
                  AllDayWindow(FormOf(s), pto_links[Val(sub[s].msg)].start_iso,
                               pto_links[Val(sub[s].msg)].end_iso)

\* a single day, the last of a year: the row and the event end on the first
\* day of the next year
C15_Witness ==
    \E s \in Subs :
        /\ sub[s].pc = "linked"
        /\ AllDayForm(FormOf(s))
        /\ FormOf(s).date = <<2023, 12, 31>> /\ FormOf(s).date_end = <<2023, 12, 31>>
        /\ Val(sub[s].msg) \in DOMAIN pto_links
        /\ pto_links[Val(sub[s].msg)].end_iso = <<2024, 1, 1>>
        /\ cal_events[Val(sub[s].ev)].end = <<2024, 1, 1>>

\* ------------------------------------------------------ channel registry
\* the bind operations on channel ch in a log: the /pto-setup invocations
\* that reached set_calendar_for_channel
Binds(log, ch) ==
    {i \in DOMAIN log :
        log[i].cmd = "setup" /\ log[i].channel = ch /\ log[i].probe = "ok"}

MostRecentBind(log, ch) ==
    IF Binds(log, ch) = {} THEN CAL_ID
    ELSE LET last == CHOOSE i \in Binds(log, ch) : \A j \in Binds(log, ch) : j <= i
         IN  Val(log[last].text)

\* C16: after any sequence of binds, resolving a channel gives the calendar
\* of the most recent bind of that channel, and the default calendar when
\* the channel was never bound, for every channel; every /pto-where reply
\* carried the value resolve had at that moment.
C16_ResolveMostRecentBind ==
    /\ \A ch \in Channels :
          get_calendar_for_channel(ch) = MostRecentBind(admin_log, ch)
    /\ \A i \in Wheres :
          admin_log[i].reply =
              Some(MostRecentBind(SubSeq(admin_log, 1, i - 1), admin_log[i].channel))

\* a channel bound in an earlier run is bound again to another calendar, and
\* /pto-where then replies with the new one
C16_Witness ==
    \E i \in Wheres :
        /\ Cardinality(Binds(SubSeq(admin_log, 1, i - 1), admin_log[i].channel)) = 2
        /\ admin_log[i].reply = Some("cal_default")
        /\ "cal_team" \in {Val(admin_log[j].text) :
                              j \in Binds(admin_log, admin_log[i].channel)}

\* C17: the registry changes only in a step of a /pto-setup invocation that
\* has an argument and whose probe insert and delete both succeeded, and
\* then only by binding that invocation's channel to that calendar; an
\* invocation without argument or with a failed probe leaves it as it was;
\* no step removes a binding.
C17_BindOnlyAfterProbe ==
    [][/\ DOMAIN channel_settings \subseteq DOMAIN channel_settings'
       /\ channel_settings' # channel_settings =>
             /\ Len(admin_log') = Len(admin_log) + 1
             /\ LET e == admin_log'[Len(admin_log')]
                IN  /\ e.cmd = "setup" /\ e.text # None /\ e.probe = "ok"
                    /\ channel_settings' =
                          [c \in DOMAIN channel_settings \cup {e.channel} |->
                              IF c = e.channel THEN Val(e.text)
                              ELSE channel_settings[c]]
       /\ (/\ Len(admin_log') = Len(admin_log) + 1
           /\ admin_log'[Len(admin_log')].probe # "ok")
             => channel_settings' = channel_settings
      ]_vars

\* a /pto-setup whose probe event was inserted and could not be deleted:
\* the probe event is left in the calendar, the channel is not bound to it
C17_Witness ==
    /\ admin_log # <<>>
    /\ LET e == admin_log[Len(admin_log)]
       IN  /\ e.cmd = "setup" /\ e.probe = "delete_failed"
           /\ get_calendar_for_channel(e.channel) # Val(e.text)
           /\ \E x \in DOMAIN cal_events :
                 cal_events[x].by = "probe" /\ cal_events[x].calendar = Val(e.text)

\* the target channel of a form: the selected channel when one is given,
\* otherwise the channel the command was invoked from
HasChannel(form) == form.modal_channel # None \/ form.pm # None

TargetChannel(form) ==
    IF form.modal_channel # None THEN Val(form.modal_channel) ELSE Val(form.pm)

\* C18: for every accepted submission with a selected or an invoking
\* channel: the calendar is resolved from the target channel, the event is
\* created in that calendar, the message is posted to the target channel,
\* and the ledger row records that channel and that calendar.
C18_TargetChannel ==
    /\ [][\A s \in Subs :
            (sub[s].pc = "idle" /\ sub'[s].pc = "insert"
                /\ HasChannel(Val(sub'[s].form))) =>
                sub'[s].cal_id_target =
                    get_calendar_for_channel(TargetChannel(Val(sub'[s].form)))
         ]_vars
    /\ [](\A s \in Subs :
            (Submitted(s) /\ HasChannel(FormOf(s))) =>
                /\ sub[s].ev # None =>
                      cal_events[Val(sub[s].ev)].calendar = sub[s].cal_id_target
                /\ sub[s].msg # None =>
                      messages[Val(sub[s].msg)].channel = TargetChannel(FormOf(s))
                /\ (sub[s].msg # None /\ Val(sub[s].msg) \in DOMAIN pto_links) =>
                      /\ pto_links[Val(sub[s].msg)].slack_channel = TargetChannel(FormOf(s))
                      /\ pto_links[Val(sub[s].msg)].calendar_id = sub[s].cal_id_target
                      /\ pto_links[Val(sub[s].msg)].event_id = Val(sub[s].ev))

\* a linked submission with a selected channel other than the invoking one,
\* whose calendar is not the default
C18_Witness ==
    \E s \in Subs :
        /\ sub[s].pc = "linked"
        /\ FormOf(s).modal_channel = Some("C2") /\ FormOf(s).pm = Some("C1")
        /\ Val(sub[s].msg) \in DOMAIN pto_links
        /\ pto_links[Val(sub[s].msg)].slack_channel = "C2"
        /\ pto_links[Val(sub[s].msg)].calendar_id = "cal_team"

\* C20: every gateway delete call of a deletion handler names the event id
\* that the submission's insert returned and the calendar that event was
\* created in, which is the one in the link row, whatever the channel is
\* bound to when the call is made.
C20_DeleteInRecordedCalendar ==
    \A d \in Dels :
        \A i \in DOMAIN del[d].calls :
            \E s \in Subs :
                /\ sub[s].msg = del[d].ts
                /\ sub[s].ev = Some(del[d].calls[i][2])
                /\ del[d].calls[i][1] = cal_events[Val(sub[s].ev)].calendar
                /\ del[d].calls[i][1] = Val(del[d].row).calendar_id

\* the channel was bound to another calendar after the calendar was
\* resolved; the delete call went to the event's calendar and succeeded
C20_Witness ==
    \E d \in Dels :
        /\ del[d].calls # <<>>
        /\ InSeq("gw_ok", del[d].fx)
        /\ get_calendar_for_channel(messages[Val(del[d].ts)].channel)
              # del[d].calls[1][1]
        /\ ~cal_events[del[d].calls[1][2]].live

\* ----------------------------------------------------------------- startup
\* C19: when the file at DB_PATH is not a readable database at startup,
\* init_db still returns: the damaged file has been moved aside and the
\* process runs on a fresh store, whose registry is empty and whose ledger
\* holds only rows written since.
C19_CorruptStoreRecovered ==
    (boot.found = "corrupt" /\ boot.pc # "start") =>
        /\ boot.pc = "running"
        /\ boot.backup
        /\ boot.file = "valid"
        /\ channel_settings = EmptyTable
        /\ \A t \in DOMAIN pto_links : \E s \in Subs : sub[s].msg = Some(t)

\* ---------------------------------------------------------- acknowledgement
\* C21: every submission is acknowledged exactly once, on every path through
\* handle_submit: with the field errors or with the plain acknowledgement
\* that closes the form, and no errors acknowledgement follows a plain one.
C21_AcknowledgedOnce ==
    \A s \in Subs :
        Submitted(s) =>
            /\ Len(sub[s].acks) = 1
            /\ sub[s].acks[1].response_action \in {"none", "errors"}
            /\ \A i \in DOMAIN sub[s].acks, j \in DOMAIN sub[s].acks :
                  (i < j /\ sub[s].acks[i] = PlainAck) =>
                      sub[s].acks[j].response_action # "errors"

====
